---------------------------- MODULE Spec2Model ----------------------------
(***************************************************************************)
(* A model of i3-app-list: the watcher that renames the workspaces of the  *)
(* i3 window manager after the applications they hold.                     *)
(*                                                                         *)
(* Text that the program takes apart (workspace names, labels, glyphs,     *)
(* separators) is a sequence of one-character strings, so that str(),      *)
(* strip(), startswith() and join() compute what Python computes.  Text    *)
(* that the program only compares (window class, instance and title,       *)
(* colours, predicate names) is a TLA+ string.  An optional value is a     *)
(* sequence of length 0 (None) or 1.                                       *)
(***************************************************************************)
EXTENDS Integers, Sequences, FiniteSets, TLC

VARIABLES
    settings,      \* Watcher.settings: the user configuration, read once
    i3,            \* the window manager: its workspaces, names and windows
    queue,         \* events the window manager has sent, not yet handled
    custom_names,  \* Watcher.custom_names: workspace id -> custom name
    tree,          \* Watcher.tree.workspaces: the tree of the latest pass
    pc,            \* "init" (constructed), "loop" (in i3.main()), "dead"
    lastPass,      \* what the latest handler run read, computed and issued
    fixedSince,    \* "renamed" or "quiet": the latest pass was a rebuild-all
                   \* whose commands (some, or none issued) were all applied,
                   \* and nothing else changed since; "refused": the same,
                   \* but the window manager refused a command of the pass;
                   \* "no" otherwise
    envLeft,       \* external changes the environment may still make
    call           \* the latest call of a pure function and its result

vars == <<settings, i3, queue, custom_names, tree, pc, lastPass, fixedSince,
          envLeft, call>>

mainVars == <<settings, i3, queue, custom_names, tree, pc, lastPass,
              fixedSince, envLeft>>

-----------------------------------------------------------------------------
(* Bounds of the model *)

MaxApps == 1

MaxQueue == 3

MaxEnv == 3

-----------------------------------------------------------------------------
(* Python values *)

\* Python's None where the program only compares the value
PyNone == "<None>"

None == <<>>

Some(x) == <<x>>

\* str(None), as str.format renders it
NoneText == <<"N", "o", "n", "e">>

\* i3's INT32_MAX: a workspace name that parses above it has no number
INT32_MAX == 2147483647

Whitespace == {" ", "\t"}

Digit == <<"0", "1", "2", "3", "4", "5", "6", "7", "8", "9">>

DigitChars == {Digit[i] : i \in 1..10}

DigitValue(c) == CHOOSE d \in 0..9 : Digit[d + 1] = c

RECURSIVE NatStr(_)
NatStr(n) ==
    IF n < 10 THEN <<Digit[n + 1]>>
    ELSE NatStr(n \div 10) \o <<Digit[(n % 10) + 1]>>

\* str(n) of an int
str(n) == IF n < 0 THEN <<"-">> \o NatStr(-n) ELSE NatStr(n)

\* s.startswith(p)
startswith(s, p) ==
    /\ Len(p) <= Len(s)
    /\ SubSeq(s, 1, Len(p)) = p

endswith(s, p) ==
    /\ Len(p) <= Len(s)
    /\ SubSeq(s, Len(s) - Len(p) + 1, Len(s)) = p

\* p occurs in s
contains(s, p) ==
    \E i \in 1..(Len(s) - Len(p) + 1) : SubSeq(s, i, i + Len(p) - 1) = p

RECURSIVE lstrip(_)
lstrip(s) ==
    IF s # <<>> /\ Head(s) \in Whitespace THEN lstrip(Tail(s)) ELSE s

RECURSIVE rstrip(_)
rstrip(s) ==
    IF s # <<>> /\ s[Len(s)] \in Whitespace
    THEN rstrip(SubSeq(s, 1, Len(s) - 1))
    ELSE s

\* str.strip() that leaves the whitespace at the end
strip_leading_only(s) == lstrip(s)

\* s.strip()
strip(s) == rstrip(lstrip(s))

\* sep.join(parts)
RECURSIVE join(_, _)
join(sep, parts) ==
    IF parts = <<>> THEN <<>>
    ELSE IF Len(parts) = 1 THEN parts[1]
    ELSE parts[1] \o sep \o join(sep, Tail(parts))

\* bool(x) of an optional text: None and "" are falsy
bool(x) == x # None /\ x[1] # <<>>

\* filter(bool, parts) of optional texts, as the texts left
Truthy(x) == bool(x)

filter_bool(parts) ==
    LET kept == SelectSeq(parts, Truthy)
    IN  [i \in 1..Len(kept) |-> kept[i][1]]

\* the text of an optional custom name
NameText(custom_name) == IF custom_name = None THEN <<>> ELSE custom_name[1]

\* "{}".format(x) of an optional text
format(x) == IF x = None THEN NoneText ELSE x[1]

-----------------------------------------------------------------------------
(* color_pango, color_cairo, color *)

color_pango(text, fgcolor, bgcolor) ==
    LET fg_tag == IF fgcolor # PyNone /\ fgcolor # ""
                  THEN <<"foreground='", fgcolor, "'">> ELSE <<>>
        bg_tag == IF bgcolor # PyNone /\ bgcolor # ""
                  THEN <<"background='", bgcolor, "'">> ELSE <<>>
    IN  <<"<span ">> \o fg_tag \o <<" ">> \o bg_tag \o <<">">>
            \o format(text) \o <<"</span>">>

color_cairo(text, fgcolor, bgcolor) ==
    LET fg_start == IF fgcolor # PyNone THEN <<"%{F", fgcolor, "}">> ELSE <<>>
        bg_start == IF bgcolor # PyNone THEN <<"%{B", bgcolor, "}">> ELSE <<>>
        fg_end == IF fgcolor # PyNone THEN <<"%{F-}">> ELSE <<>>
        bg_end == IF bgcolor # PyNone THEN <<"%{B-}">> ELSE <<>>
    IN  fg_start \o bg_start \o format(text) \o fg_end \o bg_end

color(backend, text, fgcolor, bgcolor) ==
    IF backend = "pango" THEN color_pango(text, fgcolor, bgcolor)
    ELSE color_cairo(text, fgcolor, bgcolor)

-----------------------------------------------------------------------------
(* Settings *)

\* The glyph tables of the configurations checked: name -> glyph
GlyphsFull ==
    [n \in {"browser", "terminal", "media_player", "office",
            "android_studio", "burp_suite", "gephi", "undefined"} |->
        CASE n = "browser" -> <<"B">>
          [] n = "terminal" -> <<"T">>
          [] n = "media_player" -> <<"M">>
          [] n = "office" -> <<"O">>
          [] n = "android_studio" -> <<"A">>
          [] n = "burp_suite" -> <<"S">>
          [] n = "gephi" -> <<"G">>
          [] OTHER -> <<"?">>]

\* a table without entries for the browser and for the raising predicates
GlyphsSmall ==
    [n \in {"terminal", "undefined"} |->
        IF n = "terminal" THEN <<"T">> ELSE <<"?">>]

\* the parsed settings file, before _create_sensible_attrs
RawSettings(backend, debug, glyphs, coloured) ==
    [backend |-> backend,
     debug |-> debug,
     glyphs |-> glyphs,
     apps |-> [focused |-> [fg |-> IF coloured THEN "#fff" ELSE PyNone,
                            bg |-> PyNone],
               unfocused |-> [fg |-> IF coloured THEN "#888" ELSE PyNone,
                              bg |-> PyNone],
               separator |-> [str |-> <<"|">>, fg |-> PyNone, bg |-> PyNone]],
     parts |-> [separator |-> [str |-> <<":", " ">>,
                               fg |-> IF coloured /\ backend = "pango"
                                      THEN "#444" ELSE PyNone,
                               bg |-> PyNone]]]

\* Settings._create_sensible_attrs: the separators become coloured text
create_sensible_attrs(raw) ==
    [raw EXCEPT
        !.parts.separator =
            color(raw.backend, Some(raw.parts.separator.str),
                  raw.parts.separator.fg, raw.parts.separator.bg),
        !.apps.separator =
            color(raw.backend, Some(raw.apps.separator.str),
                  raw.apps.separator.fg, raw.apps.separator.bg)]

Settings(backend, debug, glyphs, coloured) ==
    create_sensible_attrs(RawSettings(backend, debug, glyphs, coloured))

\* the configurations the pure functions are checked under
AllSettings ==
    {Settings(b, d, g, c) :
        b \in {"pango", "cairo"}, d \in BOOLEAN,
        g \in {GlyphsFull, GlyphsSmall}, c \in BOOLEAN}

\* the configurations the watcher is run under
WatcherSettings ==
    {Settings("cairo", FALSE, GlyphsFull, FALSE),
     Settings("cairo", TRUE, GlyphsFull, TRUE)}

-----------------------------------------------------------------------------
(* app_definition.py *)

\* The windows the model knows: title, class and instance of each
Window(name, class_, instance_) ==
    [name |-> name, class_ |-> class_, instance_ |-> instance_]

Firefox == Window("Mozilla Firefox", "Firefox", "Navigator")

URxvt == Window("bash", "URxvt", "urxvt")

Vlc == Window("VLC media player", "Vlc", "vlc")

Writer == Window("Untitled 1", "libreoffice-writer", "soffice")

Studio == Window("app - Android Studio", "jetbrains-studio",
                 "sun-awt-X11-XFramePeer")

\* Android Studio while it has no title yet
StudioNoTitle == Window(PyNone, "jetbrains-studio", "sun-awt-X11-XFramePeer")

Burp == Window("Burp Suite Community Edition", "burp-StartBurp",
               "burp-StartBurp")

Gephi == Window("Gephi 0.9.2", "Gephi 0.9.2", "gephi")

Xmessage == Window("xmessage", "Xmessage", "xmessage")

\* a window that sets no WM_CLASS
NoClass == Window("splash", PyNone, PyNone)

\* a terminal whose title is that of Burp Suite
BurpTerminal == Window("Burp Suite Community Edition", "URxvt", "urxvt")

Windows ==
    {Firefox, URxvt, Vlc, Writer, Studio, StudioNoTitle, Burp, Gephi,
     Xmessage, NoClass, BurpTerminal}

\* str.lower() of the classes above
lower(s) ==
    CASE s = "Firefox" -> "firefox"
      [] s = "URxvt" -> "urxvt"
      [] s = "Vlc" -> "vlc"
      [] s = "Gephi 0.9.2" -> "gephi 0.9.2"
      [] s = "Xmessage" -> "xmessage"
      [] OTHER -> s

\* s.startswith("libreoffice")
startswith_libreoffice(s) == s \in {"libreoffice-writer"}

\* s.startswith("Burp Suite")
startswith_burp_suite(s) == s \in {"Burp Suite Community Edition"}

\* "Android Studio" in s.split(" - ")[-1]
last_part_has_android_studio(s) == s \in {"app - Android Studio"}

\* "Gephi" in s
has_gephi(s) == s \in {"Gephi 0.9.2"}

\* Python's truth value: "True", "False", or "raise" for an exception
truth(b) == IF b THEN "True" ELSE "False"

\* the functions is_{app_name} of AppDefinition, in declaration order
AppDefinition ==
    <<"download_manager", "browser", "tor", "ebook_reader",
      "virtual_machine", "media_player", "wireshark", "terminal",
      "file_browser", "image_viewer", "fontforge", "office", "gvim",
      "editor", "android_studio", "skype", "ida", "steam", "burp_suite",
      "gephi">>

\* AppDefinition.is_{app_name}(app)
app_def_func(app_name, app) ==
    CASE app_name = "download_manager" -> truth(app.class_ = "Uget-gtk")
      [] app_name = "browser" ->
            truth(app.class_ \in {"Firefox", "Google-chrome", "qutebrowser"})
      [] app_name = "tor" -> truth(app.class_ = "Tor Browser")
      [] app_name = "ebook_reader" -> truth(app.class_ \in {"Okular", "Zathura"})
      [] app_name = "virtual_machine" ->
            truth(app.class_ \in {"Vmplayer", "VirtualBox",
                                  "VirtualBox Manager", "VirtualBox Machine"})
      [] app_name = "media_player" ->
            truth(app.class_ # PyNone /\ app.class_ # ""
                  /\ lower(app.class_) \in {"vlc", "mplayer"})
      [] app_name = "wireshark" -> truth(app.class_ = "Wireshark")
      [] app_name = "terminal" ->
            truth(app.class_ \in {"Gnome-terminal", "URxvt", "XTerm",
                                  "st-256color"})
      [] app_name = "file_browser" -> truth(app.class_ = "Nautilus")
      [] app_name = "image_viewer" ->
            truth(app.class_ \in {"Pinta", "Pqiv", "feh", "Eog"})
      [] app_name = "fontforge" -> truth(app.class_ = "fontforge")
      [] app_name = "office" ->
            truth(app.class_ # PyNone /\ app.class_ # ""
                  /\ startswith_libreoffice(app.class_))
      [] app_name = "gvim" -> truth(app.class_ = "Gvim")
      [] app_name = "editor" -> truth(app.class_ = "Gedit")
      [] app_name = "android_studio" ->
            IF app.class_ = "jetbrains-studio"
               /\ app.instance_ = "sun-awt-X11-XFramePeer"
            THEN IF app.name = PyNone THEN "raise"
                 ELSE truth(last_part_has_android_studio(app.name))
            ELSE "False"
      [] app_name = "skype" -> truth(app.class_ = "Skype")
      [] app_name = "ida" -> truth(app.class_ = "IDA")
      [] app_name = "steam" -> truth(app.class_ = "Steam")
      [] app_name = "burp_suite" ->
            truth(app.name # PyNone /\ app.name # ""
                  /\ startswith_burp_suite(app.name))
      [] app_name = "gephi" ->
            IF app.class_ = PyNone THEN "raise"
            ELSE truth(has_gephi(app.class_))
      [] OTHER -> "False"

\* The loop of get_glyph from definition i on.  The result is
\* [raised, glyph]: an exception, or the optional glyph returned.
RECURSIVE get_glyph_from(_, _, _)
get_glyph_from(i, app, glyphs) ==
    IF i > Len(AppDefinition) THEN [raised |-> FALSE, glyph |-> None]
    ELSE LET app_name == AppDefinition[i]
         IN  IF app_name \notin DOMAIN glyphs
             THEN get_glyph_from(i + 1, app, glyphs)
             ELSE CASE app_def_func(app_name, app) = "raise" ->
                        [raised |-> TRUE, glyph |-> None]
                    [] app_def_func(app_name, app) = "True" ->
                        [raised |-> FALSE, glyph |-> Some(glyphs[app_name])]
                    [] OTHER -> get_glyph_from(i + 1, app, glyphs)

\* The loop of get_glyph over the definitions i, i - 1, .., 1
RECURSIVE get_glyph_down_from(_, _, _)
get_glyph_down_from(i, app, glyphs) ==
    IF i < 1 THEN [raised |-> FALSE, glyph |-> None]
    ELSE LET app_name == AppDefinition[i]
         IN  IF app_name \notin DOMAIN glyphs
             THEN get_glyph_down_from(i - 1, app, glyphs)
             ELSE CASE app_def_func(app_name, app) = "raise" ->
                        [raised |-> TRUE, glyph |-> None]
                    [] app_def_func(app_name, app) = "True" ->
                        [raised |-> FALSE, glyph |-> Some(glyphs[app_name])]
                    [] OTHER -> get_glyph_down_from(i - 1, app, glyphs)

\* get_glyph that tries the definitions in the reverse order
get_glyph_backwards(app, glyphs) ==
    get_glyph_down_from(Len(AppDefinition), app, glyphs)

get_glyph(app, glyphs) == get_glyph_from(1, app, glyphs)

-----------------------------------------------------------------------------
(* class App *)

\* App.glyph without the fallback to the "undefined" glyph
App_glyph_body_no_fallback(app, s) ==
    LET got == get_glyph(app, s.glyphs)
    IN  IF got.raised /\ ~s.debug THEN [raised |-> FALSE, glyph |-> None]
        ELSE got

\* The body of App.glyph, under log_exceptions: [raised, glyph]
App_glyph_body(app, s) ==
    LET got == get_glyph(app, s.glyphs)
        undefined == IF "undefined" \in DOMAIN s.glyphs
                     THEN Some(s.glyphs["undefined"]) ELSE None
    IN  IF got.raised
        THEN IF s.debug THEN [raised |-> TRUE, glyph |-> None]
             ELSE [raised |-> FALSE, glyph |-> undefined]
        ELSE IF got.glyph # None THEN got
             ELSE [raised |-> FALSE, glyph |-> undefined]

\* log_exceptions(func): an exception is logged and None is returned
log_exceptions(result) == IF result.raised THEN None ELSE result.glyph

\* App.glyph: the optional glyph of a window
App_glyph(app, s) == log_exceptions(App_glyph_body(app, s))

\* App.__str__
App_str(app, s) ==
    LET color_group == IF app.focused THEN s.apps.focused
                       ELSE s.apps.unfocused
    IN  color(s.backend, App_glyph(app, s), color_group.fg, color_group.bg)

-----------------------------------------------------------------------------
(* class Workspace: [id, num, name, custom_name, apps] *)

\* Workspace.__str__ that joins the three parts without filtering them
Workspace_str_unfiltered(ws, s) ==
    join(s.parts.separator,
         <<str(ws.num), NameText(ws.custom_name),
           join(s.apps.separator,
                [i \in 1..Len(ws.apps) |-> App_str(ws.apps[i], s)])>>)

\* Workspace.__str__ that leaves out an unset ordinal
Workspace_str_omits_unset(ws, s) ==
    join(s.parts.separator,
         filter_bool(<<IF ws.num < 0 THEN None ELSE Some(str(ws.num)),
                       ws.custom_name,
                       Some(join(s.apps.separator,
                                 [i \in 1..Len(ws.apps) |->
                                     App_str(ws.apps[i], s)]))>>))

\* Workspace.__str__
Workspace_str(ws, s) ==
    LET num == str(ws.num)
        apps_str == join(s.apps.separator,
                         [i \in 1..Len(ws.apps) |-> App_str(ws.apps[i], s)])
    IN  join(s.parts.separator,
             filter_bool(<<Some(num), ws.custom_name, Some(apps_str)>>))

-----------------------------------------------------------------------------
(* The window manager, as the program sees it through i3ipc *)

\* the workspace identities the window manager hands out
MaxWs == 2

Ids == 1..MaxWs

RECURSIVE DigitsPrefix(_)
DigitsPrefix(s) ==
    IF s # <<>> /\ Head(s) \in DigitChars
    THEN <<Head(s)>> \o DigitsPrefix(Tail(s))
    ELSE <<>>

RECURSIVE NatValue(_)
NatValue(ds) ==
    IF ds = <<>> THEN 0
    ELSE 10 * NatValue(SubSeq(ds, 1, Len(ds) - 1)) + DigitValue(ds[Len(ds)])

\* The num i3 gives a workspace named `name`: the number the name starts
\* with (strtoll: blanks, a sign, digits), -1 when there is none, when it
\* is negative or when it is above INT32_MAX.
ws_name_to_number(name) ==
    LET s == lstrip(name)
        neg == s # <<>> /\ Head(s) = "-"
        body == IF s # <<>> /\ Head(s) \in {"-", "+"} THEN Tail(s) ELSE s
        ds == DigitsPrefix(body)
        v == IF neg THEN -NatValue(ds) ELSE NatValue(ds)
    IN  IF ds = <<>> \/ v < 0 \/ v > INT32_MAX THEN -1 ELSE v

\* a workspace the window manager does not have
NoWorkspace == [live |-> FALSE, name |-> <<>>, apps |-> <<>>]

LiveIds(t) == {id \in Ids : t[id].live}

\* the ids of a set, in the order of the window manager's tree
RECURSIVE InOrder(_)
InOrder(S) ==
    IF S = {} THEN <<>>
    ELSE LET m == CHOOSE x \in S : \A y \in S : x <= y
         IN  <<m>> \o InOrder(S \ {m})

\* i3.get_tree().workspaces(): the workspace containers [id, name, num]
tree_workspaces(t) ==
    LET ids == InOrder(LiveIds(t))
    IN  [i \in 1..Len(ids) |->
            [id |-> ids[i], name |-> t[ids[i]].name,
             num |-> ws_name_to_number(t[ids[i]].name)]]

\* i3.get_tree().leaves(): the windows, each with its workspace's id
tree_leaves(t) ==
    LET ids == InOrder(LiveIds(t))
        of(id) == [k \in 1..Len(t[id].apps) |->
                      [app |-> t[id].apps[k], workspace |-> id]]
        RECURSIVE all(_)
        all(i) == IF i > Len(ids) THEN <<>> ELSE of(ids[i]) \o all(i + 1)
    IN  all(1)

\* the workspace that bears a name, if any
workspace_by_name(t, name) ==
    LET S == {id \in LiveIds(t) : t[id].name = name}
    IN  IF S = {} THEN None ELSE Some(CHOOSE id \in S : TRUE)

RebuildEvent ==
    [type |-> "rebuild", id |-> 0, name |-> <<>>, num |-> 0,
     origin |-> "user", prev |-> 0]

\* a workspace::rename event: event.current has the id, the new name and
\* the num the window manager read from it.  `origin` (who renamed) and
\* `prev` (the num before the rename) are not in the event: they record
\* what the properties of the watcher speak of.
RenameEvent(id, name, origin, prev) ==
    [type |-> "rename", id |-> id, name |-> name,
     num |-> ws_name_to_number(name), origin |-> origin, prev |-> prev]

\* i3.command('rename workspace "<old>" to "<new>"'): the window manager
\* renames the workspace that bears the old name, unless there is none or
\* another workspace bears the new name already, and reports the rename.
\* The result is [t, ok, events].
i3_command_rename(t, old, new) ==
    LET w == workspace_by_name(t, old)
        dest == workspace_by_name(t, new)
    IN  IF w = None \/ (dest # None /\ dest # w)
        THEN [t |-> t, ok |-> FALSE, events |-> <<>>]
        ELSE [t |-> [t EXCEPT ![w[1]].name = new], ok |-> TRUE,
              events |-> <<RenameEvent(w[1], new, "engine",
                                       ws_name_to_number(old))>>]

-----------------------------------------------------------------------------
(* class Workspace, class Tree *)

\* Workspace.output that sends the command whether or not the name changes
Workspace_output_always(ws, s, st) ==
    LET new_name == Workspace_str(ws, s)
        r == i3_command_rename(st.t, ws.name, new_name)
    IN  [ws |-> [ws EXCEPT !.name = new_name],
         st |-> [t |-> r.t,
                 cmds |-> Append(st.cmds,
                                 [id |-> ws.id, old |-> ws.name,
                                  new |-> new_name, ok |-> r.ok]),
                 events |-> st.events \o r.events]]

\* Workspace.output: `st` is [t, cmds, events], the window manager and
\* what the pass has issued and caused so far.  The result is [ws, st].
Workspace_output(ws, s, st) ==
    LET new_name == Workspace_str(ws, s)
    IN  IF new_name # ws.name
        THEN LET r == i3_command_rename(st.t, ws.name, new_name)
             IN  [ws |-> [ws EXCEPT !.name = new_name],
                  st |-> [t |-> r.t,
                          cmds |-> Append(st.cmds,
                                          [id |-> ws.id, old |-> ws.name,
                                           new |-> new_name, ok |-> r.ok]),
                          events |-> st.events \o r.events]]
        ELSE [ws |-> ws, st |-> st]

\* Tree.get_apps that groups the windows by their workspace's number
get_apps_by_num(t) ==
    LET leaves == tree_leaves(t)
        num(id) == ws_name_to_number(t[id].name)
        on(id) == SelectSeq(leaves,
                            LAMBDA l : num(l.workspace) = num(id))
    IN  [id \in Ids |-> [k \in 1..Len(on(id)) |-> on(id)[k].app]]

\* Tree.get_apps: workspace id -> the windows under it (a defaultdict)
get_apps(t) ==
    LET leaves == tree_leaves(t)
        on(id) == SelectSeq(leaves, LAMBDA l : l.workspace = id)
    IN  [id \in Ids |-> [k \in 1..Len(on(id)) |-> on(id)[k].app]]

\* Tree.get_workspaces that does not look the custom names up
get_workspaces_without_names(t_workspaces, t_apps, names) ==
    LET cons == tree_workspaces(t_workspaces)
        workspace_apps == get_apps(t_apps)
    IN  [i \in 1..Len(cons) |->
            [id |-> cons[i].id, num |-> cons[i].num, name |-> cons[i].name,
             custom_name |-> None, apps |-> workspace_apps[cons[i].id]]]

\* Tree.get_workspaces: one Workspace per workspace container of the
\* first tree query, with the windows of the second
get_workspaces(t_workspaces, t_apps, names) ==
    LET cons == tree_workspaces(t_workspaces)
        workspace_apps == get_apps(t_apps)
    IN  [i \in 1..Len(cons) |->
            [id |-> cons[i].id,
             num |-> cons[i].num,
             name |-> cons[i].name,
             custom_name |-> IF cons[i].id \in DOMAIN names
                             THEN Some(names[cons[i].id]) ELSE None,
             apps |-> workspace_apps[cons[i].id]]]

\* Tree.__init__: the workspaces of a new tree
Tree(t, names) == get_workspaces(t, t, names)

\* Tree.get_workspace: the optional workspace with that id
get_workspace(workspaces, id) ==
    LET S == {i \in 1..Len(workspaces) : workspaces[i].id = id}
    IN  IF S = {} THEN None
        ELSE Some(workspaces[CHOOSE i \in S : \A j \in S : i <= j])

\* Tree.set_workspace_num that leaves the number the tree was built with
set_workspace_num_forgotten(workspaces, id, num) == workspaces

\* Tree.set_workspace_num, for an id the tree has
set_workspace_num(workspaces, id, num) ==
    [i \in 1..Len(workspaces) |->
        IF workspaces[i].id = id
        THEN [workspaces[i] EXCEPT !.num = num]
        ELSE workspaces[i]]

\* Tree.output from workspace i on: [workspaces, st]
RECURSIVE Tree_output_from(_, _, _, _)
Tree_output_from(i, workspaces, s, st) ==
    IF i > Len(workspaces) THEN [workspaces |-> workspaces, st |-> st]
    ELSE LET r == Workspace_output(workspaces[i], s, st)
         IN  Tree_output_from(i + 1, [workspaces EXCEPT ![i] = r.ws], s, r.st)

\* Tree.output that stops after the first workspace
Tree_output_first_only(workspaces, s, t) ==
    IF workspaces = <<>>
    THEN [workspaces |-> workspaces,
          st |-> [t |-> t, cmds |-> <<>>, events |-> <<>>]]
    ELSE LET r == Workspace_output(workspaces[1], s,
                                   [t |-> t, cmds |-> <<>>, events |-> <<>>])
         IN  [workspaces |-> [workspaces EXCEPT ![1] = r.ws], st |-> r.st]

Tree_output(workspaces, s, t) ==
    Tree_output_from(1, workspaces, s,
                     [t |-> t, cmds |-> <<>>, events |-> <<>>])

-----------------------------------------------------------------------------
(* class Watcher *)

EmptyNames == [id \in {} |-> <<>>]

\* self.custom_names[id] = name
set_custom_name(names, id, name) ==
    [i \in DOMAIN names \cup {id} |-> IF i = id THEN name ELSE names[i]]

\* Watcher.gc_custom_names that collects nothing
gc_custom_names_never(names, workspaces) == names

\* Watcher.gc_custom_names: drop the names of workspaces not in self.tree
gc_custom_names(names, workspaces) ==
    LET workspace_ids == {workspaces[i].id : i \in 1..Len(workspaces)}
    IN  [id \in DOMAIN names \cap workspace_ids |-> names[id]]

\* the test of on_workspace_rename without the "<num><separator>..." form
internal_change_exact_only(event_ws, s) == event_ws.name = str(event_ws.num)

\* the test of on_workspace_rename for a change of our own:
\* the new name is "<num>" or "<num><separator>..."
internal_change(event_ws, s) ==
    \/ event_ws.name = str(event_ws.num)
    \/ startswith(event_ws.name, str(event_ws.num) \o s.parts.separator)

NoPass ==
    [handler |-> "none", ev |-> RebuildEvent, outcome |-> "returned",
     preTree |-> <<>>, preStore |-> EmptyNames, fixedBefore |-> "no",
     snap |-> <<>>, cmds |-> <<>>, post |-> <<>>]

AllApplied(cmds) == \A i \in 1..Len(cmds) : cmds[i].ok

\* Watcher.rename_everything that collects the custom names of the
\* workspaces missing from its snapshot
RenameEverythingPass_collecting(handler, ev, rest, subscribed) ==
    \E snap \in {Tree(i3, custom_names)} :
    \E out \in {Tree_output(snap, settings, i3)} :
        /\ tree' = out.workspaces
        /\ i3' = out.st.t
        /\ queue' = IF subscribed THEN rest \o out.st.events ELSE rest
        /\ custom_names' = gc_custom_names(custom_names, snap)
        /\ lastPass' = [handler |-> handler, ev |-> ev,
                        outcome |-> "returned", preTree |-> tree,
                        preStore |-> custom_names,
                        fixedBefore |-> fixedSince,
                        snap |-> snap, cmds |-> out.st.cmds,
                        post |-> out.st.t]
        /\ fixedSince' = "no"
        /\ UNCHANGED <<settings, envLeft, call>>

\* Watcher.rename_everything, also as run() calls it before i3.main():
\* the events of that first pass come before the subscription
RenameEverythingPass(handler, ev, rest, subscribed) ==
    \E snap \in {Tree(i3, custom_names)} :
    \E out \in {Tree_output(snap, settings, i3)} :
        /\ tree' = out.workspaces
        /\ i3' = out.st.t
        /\ queue' = IF subscribed THEN rest \o out.st.events ELSE rest
        /\ lastPass' = [handler |-> handler, ev |-> ev,
                        outcome |-> "returned", preTree |-> tree,
                        preStore |-> custom_names,
                        fixedBefore |-> fixedSince,
                        snap |-> snap, cmds |-> out.st.cmds,
                        post |-> out.st.t]
        /\ fixedSince' = IF ~AllApplied(out.st.cmds) THEN "refused"
                        ELSE IF out.st.cmds = <<>> THEN "quiet"
                        ELSE "renamed"
        /\ UNCHANGED <<settings, custom_names, envLeft, call>>

\* Watcher.run: the first pass, then the event loop
run ==
    /\ pc = "init"
    /\ RenameEverythingPass("run", RebuildEvent, queue, FALSE)
    /\ pc' = "loop"

\* Watcher.rename_everything, on a focus, move, title, new or close event
rename_everything ==
    /\ pc = "loop"
    /\ queue # <<>>
    /\ Head(queue).type = "rebuild"
    /\ RenameEverythingPass("rename_everything", Head(queue), Tail(queue),
                            TRUE)
    /\ pc' = pc

\* Watcher.on_workspace_rename, on a workspace::rename event
on_workspace_rename ==
    /\ pc = "loop"
    /\ queue # <<>>
    /\ Head(queue).type = "rename"
    /\ LET event_ws == Head(queue)
           pass == [handler |-> "on_workspace_rename", ev |-> event_ws,
                    outcome |-> "returned", preTree |-> tree,
                    preStore |-> custom_names, fixedBefore |-> fixedSince,
                    snap |-> <<>>, cmds |-> <<>>, post |-> i3]
       IN  IF internal_change(event_ws, settings)
           THEN /\ lastPass' = [pass EXCEPT !.outcome = "ignored"]
                /\ queue' = Tail(queue)
                /\ UNCHANGED <<settings, i3, custom_names, tree, pc,
                               fixedSince, envLeft, call>>
           ELSE \E names \in {gc_custom_names(
                                  set_custom_name(custom_names, event_ws.id,
                                                  strip(event_ws.name)),
                                  tree)} :
                \E old \in {get_workspace(tree, event_ws.id)} :
                \E new_tree \in {Tree(i3, names)} :
                    /\ custom_names' = names
                    /\ fixedSince' = "no"
                    /\ UNCHANGED <<settings, envLeft, call>>
                    /\ IF old = None
                       THEN \* None has no attribute num
                            /\ pc' = "dead"
                            /\ lastPass' = [pass EXCEPT !.outcome = "raised"]
                            /\ queue' = Tail(queue)
                            /\ UNCHANGED <<i3, tree>>
                       ELSE IF get_workspace(new_tree, event_ws.id) = None
                       THEN \* set_workspace_num: None has no attribute num
                            /\ pc' = "dead"
                            /\ tree' = new_tree
                            /\ lastPass' = [pass EXCEPT !.outcome = "raised",
                                                        !.snap = new_tree]
                            /\ queue' = Tail(queue)
                            /\ UNCHANGED i3
                       ELSE \E snap \in {set_workspace_num(
                                             new_tree, event_ws.id,
                                             old[1].num)} :
                            \E out \in {Tree_output(snap, settings, i3)} :
                                /\ pc' = pc
                                /\ tree' = out.workspaces
                                /\ i3' = out.st.t
                                /\ queue' = Tail(queue) \o out.st.events
                                /\ lastPass' = [pass EXCEPT
                                                  !.snap = snap,
                                                  !.cmds = out.st.cmds,
                                                  !.post = out.st.t]

-----------------------------------------------------------------------------
(* The environment: the user and the applications *)

\* the windows that open and close while the watcher runs
WatchedWindows == {URxvt}

\* the names a user gives a workspace
UserNames ==
    {<<" ", "c", " ">>, <<" ">>, <<"1">>, <<"1", ":", " ", "c">>}

Unfocused(apps) == [k \in 1..Len(apps) |-> [apps[k] EXCEPT !.focused = FALSE]]

UnfocusAll(t) == [id \in Ids |-> [t[id] EXCEPT !.apps = Unfocused(@)]]

Remove(seq, k) == SubSeq(seq, 1, k - 1) \o SubSeq(seq, k + 1, Len(seq))

\* the environment changed the window manager and one event was sent
EnvStep(t, e) ==
    /\ pc = "loop"
    /\ envLeft > 0
    /\ Len(queue) < MaxQueue
    /\ i3' = t
    /\ queue' = Append(queue, e)
    /\ envLeft' = envLeft - 1
    /\ fixedSince' = "no"
    /\ UNCHANGED <<settings, custom_names, tree, pc, lastPass, call>>

\* the user renames a workspace
UserRename ==
    \E id \in LiveIds(i3), name \in UserNames :
        /\ name # i3[id].name
        /\ workspace_by_name(i3, name) = None
        /\ EnvStep([i3 EXCEPT ![id].name = name],
                   RenameEvent(id, name, "user",
                               ws_name_to_number(i3[id].name)))

\* a window opens, focused, on a workspace; a workspace that did not
\* exist appears, named after its number
WindowNew ==
    \E id \in Ids, w \in WatchedWindows :
        /\ Len(i3[id].apps) < MaxApps
        /\ i3[id].live \/ workspace_by_name(i3, str(id)) = None
        /\ LET t == UnfocusAll(i3)
               app == [name |-> w.name, class_ |-> w.class_,
                       instance_ |-> w.instance_, focused |-> TRUE]
           IN  EnvStep([t EXCEPT ![id] =
                           [live |-> TRUE,
                            name |-> IF i3[id].live THEN i3[id].name
                                     ELSE str(id),
                            apps |-> Append(t[id].apps, app)]],
                       RebuildEvent)

\* a window closes
WindowClose ==
    \E id \in LiveIds(i3) :
        \E k \in 1..Len(i3[id].apps) :
            EnvStep([i3 EXCEPT ![id].apps = Remove(@, k)], RebuildEvent)

\* the user focuses a window
WindowFocus ==
    \E id \in LiveIds(i3) :
        \E k \in 1..Len(i3[id].apps) :
            /\ ~i3[id].apps[k].focused
            /\ EnvStep([UnfocusAll(i3) EXCEPT ![id].apps[k].focused = TRUE],
                       RebuildEvent)

\* the user leaves an empty workspace, which the window manager removes
WorkspaceEmpty ==
    \E id \in LiveIds(i3) :
        /\ i3[id].apps = <<>>
        /\ EnvStep([i3 EXCEPT ![id] = NoWorkspace], RebuildEvent)

-----------------------------------------------------------------------------
(* The watcher and its environment *)

NoCall ==
    [fn |-> "none", settings |-> Settings("cairo", FALSE, GlyphsSmall, FALSE),
     ws |-> [id |-> 1, num |-> 1, name |-> <<>>, custom_name |-> None,
             apps |-> <<>>],
     done |-> FALSE, text |-> None]

App(w, focused) ==
    [name |-> w.name, class_ |-> w.class_, instance_ |-> w.instance_,
     focused |-> focused]

Workspace(name, apps) == [live |-> TRUE, name |-> name, apps |-> apps]

\* the workspaces the window manager may have when the watcher starts
InitWorkspaces(id) ==
    IF id = 1
    THEN {Workspace(n, a) : n \in {str(1), <<"w", "e", "b">>},
                            a \in {<<>>, <<App(URxvt, FALSE)>>}}
    ELSE {NoWorkspace,
          Workspace(str(id), <<>>),
          Workspace(str(id), <<App(NoClass, FALSE)>>),
          Workspace(<<"m">>, <<App(URxvt, FALSE)>>)}

InitI3 == {t \in [Ids -> UNION {InitWorkspaces(id) : id \in Ids}] :
              \A id \in Ids : t[id] \in InitWorkspaces(id)}

\* the state after Watcher.__init__
Init ==
    /\ settings \in WatcherSettings
    /\ i3 \in InitI3
    /\ queue = <<>>
    /\ custom_names = EmptyNames
    /\ tree = Tree(i3, EmptyNames)
    /\ pc = "init"
    /\ lastPass = NoPass
    /\ fixedSince = "no"
    /\ envLeft = MaxEnv
    /\ call = NoCall

Next ==
    \/ run
    \/ rename_everything
    \/ on_workspace_rename
    \/ UserRename
    \/ WindowNew
    \/ WindowClose
    \/ WindowFocus
    \/ WorkspaceEmpty

Spec == Init /\ [][Next]_vars

\* i3.main() dispatches every event it has received
Handle == run \/ rename_everything \/ on_workspace_rename

\* Handle can take a step: run() has not been called yet, or the loop has
\* an event to dispatch.  Every step of Handle changes the state (run
\* enters the loop; a handler that raises ends the process; one that
\* returns takes its event off the queue and adds events only for renames
\* that changed a name in the window manager), so this is
\* ENABLED <<Handle>>_vars.
HandleEnabled == pc = "init" \/ (pc = "loop" /\ queue # <<>>)

\* i3.main() is a blocking loop that dispatches every event it has
\* received: weak fairness of Handle, that is WF_vars(Handle), written
\* with HandleEnabled for ENABLED <<Handle>>_vars
FairSpec == Spec /\ ([]<>(~HandleEnabled) \/ []<><<Handle>>_vars)

-----------------------------------------------------------------------------
(* The label composer and the glyph classifier on their own: the inputs  *)
(* are drawn in the initial state and one step applies the function.     *)

\* the ordinals composed: unset, zero, one and two digits
ComposedNums == {-1, 0, 5, 12}

\* the custom names composed: none, empty, plain, with a blank inside,
\* and one that starts with the text of the part separator
ComposedNames ==
    {None, Some(<<>>), Some(<<"w", "o", "r", "k">>), Some(<<"a", " ", "b">>),
     Some(<<":", " ", "x">>)}

ComposedWindows == {URxvt, Xmessage, NoClass}

ComposedApps ==
    LET one == {App(w, f) : w \in ComposedWindows, f \in BOOLEAN}
    IN  {<<>>} \cup {<<a>> : a \in one}
               \cup {<<a, b>> : a \in one, b \in {App(Xmessage, FALSE),
                                                   App(URxvt, TRUE)}}

ComposeInputs ==
    {[fn |-> "str", settings |-> s,
      ws |-> [id |-> 1, num |-> n, name |-> <<>>, custom_name |-> c,
              apps |-> a],
      done |-> FALSE, text |-> None] :
        s \in AllSettings, n \in ComposedNums, c \in ComposedNames,
        a \in ComposedApps}

GlyphInputs ==
    {[fn |-> "glyph", settings |-> s,
      ws |-> [id |-> 1, num |-> 1, name |-> <<>>, custom_name |-> None,
              apps |-> <<App(w, f)>>],
      done |-> FALSE, text |-> None] :
        s \in AllSettings, w \in Windows, f \in BOOLEAN}

PureInit ==
    /\ settings = Settings("cairo", FALSE, GlyphsSmall, FALSE)
    /\ i3 = [id \in Ids |-> NoWorkspace]
    /\ queue = <<>>
    /\ custom_names = EmptyNames
    /\ tree = <<>>
    /\ pc = "init"
    /\ lastPass = NoPass
    /\ fixedSince = "no"
    /\ envLeft = 0
    /\ call \in ComposeInputs \cup GlyphInputs

\* str(workspace)
Compose ==
    /\ call.fn = "str"
    /\ ~call.done
    /\ call' = [call EXCEPT !.done = TRUE,
                            !.text = Some(Workspace_str(call.ws,
                                                        call.settings))]
    /\ UNCHANGED mainVars

\* app.glyph
Classify ==
    /\ call.fn = "glyph"
    /\ ~call.done
    /\ call' = [call EXCEPT !.done = TRUE,
                            !.text = App_glyph(call.ws.apps[1],
                                               call.settings)]
    /\ UNCHANGED mainVars

PureNext == Compose \/ Classify

PureSpec == PureInit /\ [][PureNext]_vars

-----------------------------------------------------------------------------
(* What the claims speak of *)

\* two texts joined by a separator, an empty one adding no separator
Join2(sep, a, b) ==
    IF a = <<>> THEN b ELSE IF b = <<>> THEN a ELSE a \o sep \o b

\* the non-empty ones of three components, in order, joined
Join3(sep, a, b, c) == Join2(sep, Join2(sep, a, b), c)

\* the glyphs of a workspace's windows, each coloured by focus, joined by
\* the app separator
GlyphsText(apps, s) ==
    join(s.apps.separator, [i \in 1..Len(apps) |-> App_str(apps[i], s)])

\* a text with a part separator at an end, or with two of them in a row
StraySeparator(text, sep) ==
    \/ startswith(text, sep)
    \/ endswith(text, sep)
    \/ contains(text, sep \o sep)

Composed == call.fn = "str" /\ call.done

Classified == call.fn = "glyph" /\ call.done

\* C8, as claimed: the label is the non-empty ones of ordinal, custom name
\* and glyphs joined by the part separator, and it never starts or ends
\* with the part separator nor holds two of them in a row.
C8_ComposerFiltering_Claimed ==
    Composed =>
        LET sep == call.settings.parts.separator
            label == call.text[1]
        IN  /\ label = Join3(sep, str(call.ws.num),
                             NameText(call.ws.custom_name),
                             GlyphsText(call.ws.apps, call.settings))
            /\ ~StraySeparator(label, sep)

\* C8, amended: the label is that join; it has no part separator at an end
\* and no two in a row when neither the custom name nor the glyph text
\* holds the part separator itself.
C8_ComposerFiltering ==
    Composed =>
        LET sep == call.settings.parts.separator
            label == call.text[1]
            name == NameText(call.ws.custom_name)
            glyphs == GlyphsText(call.ws.apps, call.settings)
        IN  /\ label = Join3(sep, str(call.ws.num), name, glyphs)
            /\ (~contains(name, sep) /\ ~contains(glyphs, sep))
                   => ~StraySeparator(label, sep)

\* C8's case: an empty custom name and no windows were composed to the
\* ordinal alone, and elsewhere a name and two glyphs were joined
C8_Witness ==
    /\ Composed
    /\ call.ws.custom_name = Some(<<>>)
    /\ call.ws.apps = <<>>
    /\ call.ws.num = 5
    /\ call.text = Some(<<"5">>)

\* C9, as claimed: with the ordinal unset the label has no ordinal
\* component; custom name "work" and no windows give exactly "work".
C9_UnsetOrdinalOmitted_Claimed ==
    (Composed /\ call.ws.num = -1) =>
        call.text[1] = Join2(call.settings.parts.separator,
                             NameText(call.ws.custom_name),
                             GlyphsText(call.ws.apps, call.settings))

\* C9, amended: with the ordinal unset (-1) the label's first component is
\* the text "-1", followed by the custom name and the glyphs as for any
\* other ordinal.
C9_UnsetOrdinalKept ==
    (Composed /\ call.ws.num = -1) =>
        call.text[1] = Join3(call.settings.parts.separator, <<"-", "1">>,
                             NameText(call.ws.custom_name),
                             GlyphsText(call.ws.apps, call.settings))

\* C9's case: ordinal unset, custom name "work", no windows
C9_Witness ==
    /\ Composed
    /\ call.ws.num = -1
    /\ call.ws.custom_name = Some(<<"w", "o", "r", "k">>)
    /\ call.ws.apps = <<>>
    /\ call.settings.parts.separator = <<":", " ">>
    /\ call.text = Some(<<"-", "1", ":", " ", "w", "o", "r", "k">>)

\* the predicates that have an entry in the glyph table
WithEntry(glyphs) ==
    {AppDefinition[i] : i \in 1..Len(AppDefinition)} \cap DOMAIN glyphs

\* no predicate with a glyph-table entry returns true for the window
NoEntryMatches(app, glyphs) ==
    \A n \in WithEntry(glyphs) : app_def_func(n, app) # "True"

\* a predicate with a glyph-table entry raises for the window
EntryRaises(app, glyphs) ==
    \E n \in WithEntry(glyphs) : app_def_func(n, app) = "raise"

-----------------------------------------------------------------------------
(* Claims about the watcher *)

Sep == settings.parts.separator

\* a name of the engine's naming convention for an event's ordinal:
\* "<num>", or "<num>" and the part separator and anything
EchoForm(ev) ==
    \/ ev.name = str(ev.num)
    \/ startswith(ev.name, str(ev.num) \o Sep)

IdsOf(workspaces) == {workspaces[i].id : i \in 1..Len(workspaces)}

\* the rename commands a pass issued for a workspace
CmdsFor(id) == SelectSeq(lastPass.cmds, LAMBDA c : c.id = id)

RebuildAll == lastPass.handler = "rename_everything"

RenameHandled == lastPass.handler = "on_workspace_rename"

\* the latest handler run built a tree and printed it
PassDone ==
    /\ lastPass.handler # "none"
    /\ lastPass.outcome = "returned"

AfterRefusedCommand == RebuildAll /\ lastPass.fixedBefore = "refused"

\* such a pass issues the refused command again
RefusedCommandRepeated == AfterRefusedCommand => lastPass.cmds # <<>>

C2_NoRedundantRename ==
    /\ \A i \in 1..Len(lastPass.cmds) :
          \E k \in 1..Len(lastPass.snap) :
              /\ lastPass.snap[k].id = lastPass.cmds[i].id
              /\ lastPass.snap[k].name = lastPass.cmds[i].old
              /\ lastPass.cmds[i].new # lastPass.snap[k].name
    /\ \A k \in 1..Len(lastPass.snap) :
          Workspace_str(lastPass.snap[k], settings) = lastPass.snap[k].name
              => CmdsFor(lastPass.snap[k].id) = <<>>

\* C2's case: a pass renamed one workspace and left alone another whose
\* label was its name already
C2_Witness ==
    /\ PassDone
    /\ lastPass.cmds # <<>>
    /\ \E k \in 1..Len(lastPass.snap) :
          /\ Workspace_str(lastPass.snap[k], settings) = lastPass.snap[k].name
          /\ CmdsFor(lastPass.snap[k].id) = <<>>

\* C3: a rename event whose name is of the engine's naming convention
\* changes no custom name, builds no tree and issues no rename command.
C3_SelfEchoSuppressed ==
    (RenameHandled /\ EchoForm(lastPass.ev)) =>
        /\ custom_names = lastPass.preStore
        /\ tree = lastPass.preTree
        /\ lastPass.snap = <<>>
        /\ lastPass.cmds = <<>>
        /\ pc = "loop"

\* C3's case: the event of the engine's own rename to "<num><sep>..." was
\* handled while a custom name was stored
C3_Witness ==
    /\ RenameHandled
    /\ lastPass.ev.origin = "engine"
    /\ startswith(lastPass.ev.name, str(lastPass.ev.num) \o Sep)
    /\ lastPass.ev.id \in DOMAIN custom_names

\* the engine has nothing left to handle
Quiescent == pc = "dead" \/ (pc = "loop" /\ queue = <<>>)

\* C4: every rename event that a rename command of the engine caused is of
\* the naming convention, is ignored and causes no rename command; so the
\* engine comes to rest once the external events stop.
C4_NoRenameFeedbackLoop ==
    /\ [](\A i \in 1..Len(queue) :
             queue[i].origin = "engine" => EchoForm(queue[i]))
    /\ []((RenameHandled /\ lastPass.ev.origin = "engine") =>
             (lastPass.outcome = "ignored" /\ lastPass.cmds = <<>>))
    /\ <>[]Quiescent

\* C4's case: the engine renamed a workspace, handled the event that the
\* rename caused and has come to rest
C4_Witness ==
    /\ RenameHandled
    /\ lastPass.ev.origin = "engine"
    /\ queue = <<>>
    /\ envLeft = 0

\* the rename event handled last, when its name is not of the naming
\* convention and its workspace is in the tree of the pass before
ManualRename ==
    /\ RenameHandled
    /\ ~EchoForm(lastPass.ev)
    /\ get_workspace(lastPass.preTree, lastPass.ev.id) # None

\* the label C5 states: the ordinal the workspace had in the tree, the
\* stripped name and the glyphs of the snapshot, joined
RoundTripLabel ==
    Join3(Sep,
          str(get_workspace(lastPass.preTree, lastPass.ev.id)[1].num),
          strip(lastPass.ev.name),
          GlyphsText(get_workspace(lastPass.snap, lastPass.ev.id)[1].apps,
                     settings))

\* C5, as claimed: such an event stores the stripped name and issues
\* exactly one rename command for the workspace, to that label.
C5_ManualRenameRoundTrip_Claimed ==
    ManualRename =>
        /\ lastPass.ev.id \in DOMAIN custom_names
        /\ custom_names[lastPass.ev.id] = strip(lastPass.ev.name)
        /\ get_workspace(lastPass.snap, lastPass.ev.id) # None
        /\ Len(CmdsFor(lastPass.ev.id)) = 1
        /\ CmdsFor(lastPass.ev.id)[1].new = RoundTripLabel

\* C5, amended: such an event stores the stripped name.  If the workspace
\* is gone from the snapshot the update builds, the handler raises and
\* issues nothing.  Otherwise it issues for the workspace one rename
\* command, to that label, unless the workspace bears that label already;
\* a workspace that still bears the event's name always gets the command.
C5_ManualRenameRoundTrip ==
    ManualRename =>
        /\ lastPass.ev.id \in DOMAIN custom_names
        /\ custom_names[lastPass.ev.id] = strip(lastPass.ev.name)
        /\ LET ws == get_workspace(lastPass.snap, lastPass.ev.id)
               cmds == CmdsFor(lastPass.ev.id)
           IN  IF ws = None
               THEN lastPass.outcome = "raised" /\ lastPass.cmds = <<>>
               ELSE /\ lastPass.outcome = "returned"
                    /\ IF ws[1].name = RoundTripLabel
                       THEN cmds = <<>>
                       ELSE /\ Len(cmds) = 1
                            /\ cmds[1].old = ws[1].name
                            /\ cmds[1].new = RoundTripLabel
                    /\ ws[1].name = lastPass.ev.name => Len(cmds) = 1

\* C5's case: workspace 1, with ordinal 1 and a terminal, was renamed " c "
\* and the update renamed it "1: c: T"
C5_Witness ==
    /\ ManualRename
    /\ lastPass.ev.name = <<" ", "c", " ">>
    /\ get_workspace(lastPass.preTree, lastPass.ev.id)[1].num = 1
    /\ \E i \in 1..Len(lastPass.cmds) :
          /\ lastPass.cmds[i].id = lastPass.ev.id
          /\ lastPass.cmds[i].old = lastPass.ev.name
          /\ lastPass.cmds[i].new = <<"1", ":", " ", "c", ":", " ", "T">>

\* C6: a stored custom name stays stored until a rename event for its
\* workspace is accepted (or its workspace has left the tree), and every
\* label a pass computes for a workspace with a stored name has that name
\* between the ordinal and the glyphs.
C6_CustomNamePreserved ==
    /\ \A id \in DOMAIN lastPass.preStore :
          (~(/\ RenameHandled
             /\ ~EchoForm(lastPass.ev)
             /\ (lastPass.ev.id = id \/ id \notin IdsOf(lastPass.preTree))))
              => /\ id \in DOMAIN custom_names
                 /\ custom_names[id] = lastPass.preStore[id]
    /\ PassDone =>
          \A k \in 1..Len(tree) :
              tree[k].id \in DOMAIN custom_names =>
                  /\ tree[k].name =
                        Join3(Sep, str(tree[k].num),
                              custom_names[tree[k].id],
                              GlyphsText(tree[k].apps, settings))
                  /\ \A i \in 1..Len(lastPass.cmds) :
                        lastPass.cmds[i].id = tree[k].id =>
                            lastPass.cmds[i].new = tree[k].name

\* C6's case: a rebuild-all pass relabelled a workspace that has the stored
\* custom name "c", and the new label has the name in it
C6_Witness ==
    /\ RebuildAll
    /\ \E i \in 1..Len(lastPass.cmds) :
          /\ lastPass.cmds[i].id \in DOMAIN custom_names
          /\ custom_names[lastPass.cmds[i].id] = <<"c">>
          /\ contains(lastPass.cmds[i].new, Sep \o <<"c">> \o Sep)

\* C7, as claimed: an entry whose workspace is absent from the snapshot a
\* rebuild builds is removed by that rebuild.
C7_GarbageCollection_Claimed ==
    (RebuildAll \/ (RenameHandled /\ PassDone)) =>
        \A id \in DOMAIN lastPass.preStore :
            id \notin IdsOf(lastPass.snap) => id \notin DOMAIN custom_names

\* C7, amended: an entry whose workspace is absent from the tree of the
\* latest pass is removed when the next rename event is accepted, which is
\* the only time entries are collected; a rebuild-all pass removes none;
\* and an entry appears only for the workspace of an accepted rename event.
C7_GarbageCollection ==
    /\ (RenameHandled /\ ~EchoForm(lastPass.ev)) =>
          \A id \in DOMAIN lastPass.preStore \cup {lastPass.ev.id} :
              id \notin IdsOf(lastPass.preTree) =>
                  id \notin DOMAIN custom_names
    /\ ~(RenameHandled /\ ~EchoForm(lastPass.ev)) =>
          custom_names = lastPass.preStore
    /\ \A id \in DOMAIN custom_names \ DOMAIN lastPass.preStore :
          RenameHandled /\ ~EchoForm(lastPass.ev) /\ lastPass.ev.id = id

\* C7's case: an accepted rename event removed the entry of a workspace
\* that had left the tree
C7_Witness ==
    /\ RenameHandled
    /\ ~EchoForm(lastPass.ev)
    /\ \E id \in DOMAIN lastPass.preStore :
          /\ id \notin IdsOf(lastPass.preTree)
          /\ id \notin DOMAIN custom_names
          /\ id # lastPass.ev.id


-----------------------------------------------------------------------------
(* Claims about errors, interleavings and snapshots *)

\* a window of the workspace makes a predicate with a glyph-table entry raise
HasRaisingWindow(ws) ==
    \E i \in 1..Len(ws.apps) : EntryRaises(ws.apps[i], settings.glyphs)

\* what a window whose predicate raised is rendered as: the "undefined"
\* glyph, or the text "None" in the debug configuration, in its colours
RaisedRendering(app) ==
    LET group == IF app.focused THEN settings.apps.focused
                 ELSE settings.apps.unfocused
    IN  color(settings.backend,
              IF settings.debug THEN None
              ELSE Some(settings.glyphs["undefined"]),
              group.fg, group.bg)

\* the pass reconciled workspace k of its snapshot: the tree holds a label
\* for it, and it got one command to that label, or none when it bore it
Reconciled(k) ==
    LET ws == lastPass.snap[k]
        cmds == CmdsFor(ws.id)
    IN  /\ k <= Len(tree)
        /\ tree[k].id = ws.id
        /\ startswith(tree[k].name, str(ws.num))
        /\ IF tree[k].name = ws.name THEN cmds = <<>>
           ELSE /\ Len(cmds) = 1
                /\ cmds[1].old = ws.name
                /\ cmds[1].new = tree[k].name

UserRenameOfNumbered ==
    /\ RenameHandled
    /\ lastPass.ev.origin = "user"
    /\ lastPass.ev.prev >= 0
    /\ lastPass.ev.num = -1

\* a label begins with the ordinal n
BeginsWith(label, n) == label = str(n) \/ startswith(label, str(n) \o Sep)

\* C12: the label emitted in response to the user's renaming a workspace
\* of ordinal n to a name without a number begins with n, whatever was
\* handled between the renaming and its event.
C12_OrdinalPreserved ==
    UserRenameOfNumbered =>
        \A i \in 1..Len(lastPass.cmds) :
            lastPass.cmds[i].id = lastPass.ev.id =>
                BeginsWith(lastPass.cmds[i].new, lastPass.ev.prev)


\* the ordinal a workspace has in the snapshot of the latest pass
SnapNum(id) ==
    (CHOOSE ws \in {lastPass.snap[k] : k \in 1..Len(lastPass.snap)} :
        ws.id = id).num

\* C13: the new name of every rename command begins with the ordinal its
\* workspace has in the pass's snapshot (the name is str(ordinal), or
\* str(ordinal) and the part separator come first), the unset ordinal -1
\* included; and the num the window manager reads from that name is that
\* ordinal, so the event of the rename is of the form on_workspace_rename
\* ignores.
C13_NamingConvention ==
    \A i \in 1..Len(lastPass.cmds) :
        LET cmd == lastPass.cmds[i]
        IN  /\ cmd.id \in IdsOf(lastPass.snap)
            /\ BeginsWith(cmd.new, SnapNum(cmd.id))
            /\ ws_name_to_number(cmd.new) = SnapNum(cmd.id)
            /\ EchoForm([name |-> cmd.new,
                         num |-> ws_name_to_number(cmd.new)])

\* C13's case: a workspace without a number, with a custom name, was
\* renamed to a label that begins with "-1" and the separator
C13_Witness ==
    \E i \in 1..Len(lastPass.cmds) :
        /\ SnapNum(lastPass.cmds[i].id) = -1
        /\ lastPass.cmds[i].id \in DOMAIN custom_names
        /\ custom_names[lastPass.cmds[i].id] # <<>>
        /\ lastPass.cmds[i].ok
        /\ startswith(lastPass.cmds[i].new, <<"-", "1">> \o Sep)


\* the label of a workspace of a snapshot: ordinal, custom name and glyphs
LabelOf(ws) ==
    Join3(Sep, str(ws.num), NameText(ws.custom_name),
          GlyphsText(ws.apps, settings))

\* C14: when every rename command of a pass that returned (rebuild-all,
\* or a selective update that was not ignored) succeeded, every workspace
\* of the pass's snapshot bears its computed label in the window manager
\* when the pass ends.
C14_PassPostcondition ==
    (PassDone /\ AllApplied(lastPass.cmds)) =>
        \A k \in 1..Len(lastPass.snap) :
            LET ws == lastPass.snap[k]
            IN  /\ lastPass.post[ws.id].live
                /\ lastPass.post[ws.id].name = LabelOf(ws)

\* C14's case: a selective update relabelled the workspace of its event
\* and another workspace as well, and both commands succeeded
C14_Witness ==
    /\ RenameHandled
    /\ PassDone
    /\ AllApplied(lastPass.cmds)
    /\ \E i, j \in 1..Len(lastPass.cmds) :
          /\ lastPass.cmds[i].id = lastPass.ev.id
          /\ lastPass.cmds[j].id # lastPass.ev.id
          /\ lastPass.post[lastPass.cmds[j].id].name = lastPass.cmds[j].new


\* C15: a rebuild-all pass (the first pass of run() included) leaves the
\* custom-name store as it was: no entry added, removed or altered, so the
\* entry of a workspace that has disappeared stays.
C15_RebuildAllKeepsStore ==
    lastPass.handler \in {"run", "rename_everything"} =>
        /\ custom_names = lastPass.preStore
        /\ \A id \in DOMAIN lastPass.preStore :
              id \notin IdsOf(lastPass.snap) =>
                  /\ id \in DOMAIN custom_names
                  /\ custom_names[id] = lastPass.preStore[id]

\* C15's case: a second rebuild-all pass in a row found the entry of a
\* workspace that is in neither snapshot, and left it
C15_Witness ==
    /\ RebuildAll
    /\ lastPass.fixedBefore # "no"
    /\ \E id \in DOMAIN custom_names :
          /\ id \notin IdsOf(lastPass.snap)
          /\ id \notin IdsOf(lastPass.preTree)


\* the rename event handled last is not of the naming convention and its
\* workspace is not in the tree of the pass before
UnknownRename ==
    /\ RenameHandled
    /\ ~EchoForm(lastPass.ev)
    /\ lastPass.ev.id \notin IdsOf(lastPass.preTree)

\* C16: when a rename event that is not an echo arrives for an identity
\* absent from the tree of the previous pass, the garbage collection, done
\* on that tree, removes the entry just stored, the handler fails on the
\* previous ordinal, the tree is not rebuilt and no command is issued.
C16_UnknownIdentityRename ==
    UnknownRename =>
        /\ lastPass.outcome = "raised"
        /\ pc = "dead"
        /\ lastPass.ev.id \notin DOMAIN custom_names
        /\ custom_names = gc_custom_names(lastPass.preStore, lastPass.preTree)
        /\ tree = lastPass.preTree
        /\ lastPass.snap = <<>>
        /\ lastPass.cmds = <<>>

\* a user's rename of a workspace that was gone from the tree before the
\* event was handled has stopped the watcher
C16_Witness ==
    /\ UnknownRename
    /\ lastPass.ev.origin = "user"
    /\ strip(lastPass.ev.name) # <<>>
    /\ pc = "dead"

-----------------------------------------------------------------------------
(* Tree.__init__ beside the window manager: the two tree queries of one  *)
(* construction are two round trips, and the user and the applications   *)
(* go on changing the window manager between them.                       *)

\* no Tree is under construction: `asked` counts the tree queries of the
\* construction, `first` and `second` are what the window manager was at
\* each, `changes` how often it changed between them
NoTree ==
    [fn |-> "Tree", done |-> FALSE, asked |-> 0, first |-> <<>>,
     second |-> <<>>, left |-> 0, changes |-> 0]

\* the custom names a Tree is built with
TreeNames == {EmptyNames, [id \in {1} |-> <<"c">>]}

\* the window manager when a Tree is constructed: also with two windows
\* on the first workspace
TreeI3 ==
    InitI3 \cup
    {[t EXCEPT ![1].apps = <<App(NoClass, FALSE), App(URxvt, TRUE)>>] :
        t \in InitI3}

\* the window manager runs and a Tree is about to be constructed
TreeInit ==
    /\ settings \in WatcherSettings
    /\ i3 \in TreeI3
    /\ queue = <<>>
    /\ custom_names \in TreeNames
    /\ tree = <<>>
    /\ pc = "loop"
    /\ lastPass = NoPass
    /\ fixedSince = "no"
    /\ envLeft = MaxEnv
    /\ call = NoTree

\* Tree.get_workspaces up to its tree query: self.i3.get_tree().workspaces()
Tree_get_workspaces ==
    /\ call.asked = 0
    /\ call' = [NoTree EXCEPT !.asked = 1, !.first = i3, !.left = envLeft]
    /\ UNCHANGED mainVars

\* the rest of Tree.get_workspaces: get_apps with its own tree query,
\* self.i3.get_tree().leaves(), and the windows given to the workspaces
Tree_get_apps ==
    /\ call.asked = 1
    /\ ~call.done
    /\ tree' = get_workspaces(call.first, i3, custom_names)
    /\ call' = [call EXCEPT !.done = TRUE, !.asked = @ + 1, !.second = i3,
                            !.changes = call.left - envLeft]
    /\ UNCHANGED <<settings, i3, queue, custom_names, pc, lastPass,
                   fixedSince, envLeft>>

TreeNext ==
    \/ Tree_get_workspaces
    \/ Tree_get_apps
    \/ UserRename
    \/ WindowNew
    \/ WindowClose
    \/ WindowFocus
    \/ WorkspaceEmpty

TreeSpec == TreeInit /\ [][TreeNext]_vars

\* a Tree has been constructed
TreeBuilt == call.done

\* C17: one Tree construction sends one tree query, from which both the
\* workspace list and the leaf windows are taken.
C17_OneTreeQuery == TreeBuilt => call.asked = 1

\* C18: a snapshot is the grouping of one single state of the window
\* manager even when the window manager changes while it is built (with
\* at most one change between the queries, the states it went through are
\* the two that were answered from), and no window is attributed to a
\* workspace missing from the snapshot's workspace list.
C18_SnapshotConsistent ==
    TreeBuilt =>
        /\ call.changes <= 1 =>
               tree \in {Tree(call.first, custom_names),
                         Tree(call.second, custom_names)}
        /\ \A id \in Ids :
               get_apps(call.second)[id] # <<>> => id \in IdsOf(tree)

\* the window manager did not change between the queries of the Tree
OneState == TreeBuilt /\ call.second = call.first

\* the number of windows in the lists of workspaces i.. of a snapshot
RECURSIVE WindowsFrom(_, _)
WindowsFrom(i, workspaces) ==
    IF i > Len(workspaces) THEN 0
    ELSE Len(workspaces[i].apps) + WindowsFrom(i + 1, workspaces)

-----------------------------------------------------------------------------
(* The glyph classifier's order *)

\* definition i has a glyph-table entry and returns true for the window,
\* and every definition before it that has an entry returns false
FirstMatch(i, app, glyphs) ==
    /\ AppDefinition[i] \in DOMAIN glyphs
    /\ app_def_func(AppDefinition[i], app) = "True"
    /\ \A j \in 1..(i - 1) :
           AppDefinition[j] \in DOMAIN glyphs =>
               app_def_func(AppDefinition[j], app) = "False"

-----------------------------------------------------------------------------
(* Claims about failed commands and stored names *)

\* the name the tree holds for a workspace after the pass
CachedName(id) == get_workspace(tree, id)[1].name

\* C21: after a pass, the tree's name of a workspace for which a rename
\* command was issued is the new label if the window manager applied the
\* command, and the old name if it refused it.
C21_CachedNameFollowsSuccess ==
    PassDone =>
        \A i \in 1..Len(lastPass.cmds) :
            CachedName(lastPass.cmds[i].id) =
                IF lastPass.cmds[i].ok THEN lastPass.cmds[i].new
                ELSE lastPass.cmds[i].old

-----------------------------------------------------------------------------
(* The watcher on a connection that fails: a tree query or a rename      *)
(* command raises a transport error.  No handler catches it.             *)

\* Tree.output from workspace i on where the k-th command sent raises, the
\* window manager having applied it or not: [workspaces, st, raised]
RECURSIVE Tree_output_raising_from(_, _, _, _, _, _)
Tree_output_raising_from(i, workspaces, s, st, k, applied) ==
    IF i > Len(workspaces)
    THEN [workspaces |-> workspaces, st |-> st, raised |-> FALSE]
    ELSE LET ws == workspaces[i]
             new_name == Workspace_str(ws, s)
         IN  IF new_name = ws.name
             THEN Tree_output_raising_from(i + 1, workspaces, s, st, k,
                                           applied)
             ELSE IF k = 1
             THEN \* i3.command raises: self.name = new_name is not reached
                  LET r == IF applied
                           THEN i3_command_rename(st.t, ws.name, new_name)
                           ELSE [t |-> st.t, ok |-> FALSE, events |-> <<>>]
                  IN  [workspaces |-> workspaces,
                       st |-> [t |-> r.t,
                               cmds |-> Append(st.cmds,
                                               [id |-> ws.id, old |-> ws.name,
                                                new |-> new_name,
                                                ok |-> r.ok]),
                               events |-> st.events \o r.events],
                       raised |-> TRUE]
             ELSE LET r == Workspace_output(ws, s, st)
                  IN  Tree_output_raising_from(
                          i + 1, [workspaces EXCEPT ![i] = r.ws], s, r.st,
                          k - 1, applied)

\* Tree.output where the error of the k-th command is caught and the
\* remaining workspaces are printed
Tree_output_raising_caught(workspaces, s, t, k, applied) ==
    LET out == Tree_output(workspaces, s, t)
    IN  [workspaces |-> out.workspaces, st |-> out.st,
         raised |-> Len(out.st.cmds) >= k]

\* Tree.output where the k-th command sent raises
Tree_output_raising(workspaces, s, t, k, applied) ==
    Tree_output_raising_from(1, workspaces, s,
                             [t |-> t, cmds |-> <<>>, events |-> <<>>],
                             k, applied)

\* A pass that a transport error ends: the tree query raises, or the n-th
\* rename command does.  `names` is the store the tree is built
\* with and `renamed` the optional [id, num] of set_workspace_num.
RaisingPass(handler, ev, rest, names, renamed) ==
    /\ pc' = "dead"
    /\ queue' = rest
    /\ custom_names' = names
    /\ fixedSince' = "no"
    /\ UNCHANGED <<settings, envLeft, call>>
    /\ \/ \* self.i3.get_tree() raises: self.tree is not assigned
          /\ lastPass' = [handler |-> handler, ev |-> ev,
                          outcome |-> "query_failed", preTree |-> tree,
                          preStore |-> custom_names,
                          fixedBefore |-> fixedSince,
                          snap |-> <<>>, cmds |-> <<>>, post |-> i3]
          /\ UNCHANGED <<i3, tree>>
       \/ \E new_tree \in {Tree(i3, names)} :
          \E snap \in {IF renamed = None THEN new_tree
                       ELSE set_workspace_num(new_tree, renamed[1].id,
                                              renamed[1].num)} :
          \E n \in 1..MaxWs, applied \in BOOLEAN :
          \E out \in {Tree_output_raising(snap, settings, i3, n, applied)} :
              /\ renamed # None =>
                     get_workspace(new_tree, renamed[1].id) # None
              /\ out.raised
              /\ tree' = out.workspaces
              /\ i3' = out.st.t
              /\ lastPass' = [handler |-> handler, ev |-> ev,
                              outcome |-> "command_failed",
                              preTree |-> tree,
                              preStore |-> custom_names,
                              fixedBefore |-> fixedSince,
                              snap |-> snap, cmds |-> out.st.cmds,
                              post |-> out.st.t]

\* Watcher.run whose first pass a transport error ends
run_raising ==
    /\ pc = "init"
    /\ RaisingPass("run", RebuildEvent, queue, custom_names, None)

\* Watcher.rename_everything that a transport error ends
rename_everything_raising ==
    /\ pc = "loop"
    /\ queue # <<>>
    /\ Head(queue).type = "rebuild"
    /\ RaisingPass("rename_everything", Head(queue), Tail(queue),
                   custom_names, None)

\* Watcher.on_workspace_rename that a transport error ends: the name is
\* stored and the garbage collected before the new tree is asked for
on_workspace_rename_raising ==
    /\ pc = "loop"
    /\ queue # <<>>
    /\ Head(queue).type = "rename"
    /\ ~internal_change(Head(queue), settings)
    /\ get_workspace(tree, Head(queue).id) # None
    /\ RaisingPass("on_workspace_rename", Head(queue), Tail(queue),
                   gc_custom_names(
                       set_custom_name(custom_names, Head(queue).id,
                                       strip(Head(queue).name)),
                       tree),
                   Some([id |-> Head(queue).id,
                         num |-> get_workspace(tree, Head(queue).id)[1].num]))

RaisingNext ==
    \/ Next
    \/ run_raising
    \/ rename_everything_raising
    \/ on_workspace_rename_raising

RaisingSpec == Init /\ [][RaisingNext]_vars

\* the position of a workspace in the snapshot of the pass
SnapPos(id) == CHOOSE k \in 1..Len(lastPass.snap) : lastPass.snap[k].id = id

\* the command that raised
RaisedCmd == lastPass.cmds[Len(lastPass.cmds)]

\* C22: a transport error in a pass is not retried.  When the tree query
\* raises, the pass has no tree and sends no command; when a rename
\* command raises, no command is sent twice, the workspaces later in the
\* pass receive no command and keep their names, and the workspace of
\* the command keeps its old name in the tree; in both cases the error
\* leaves the handler and ends the loop.
C22_TransportErrorNotRetried ==
    /\ lastPass.outcome = "query_failed" =>
           /\ pc = "dead"
           /\ lastPass.cmds = <<>>
           /\ lastPass.snap = <<>>
           /\ tree = lastPass.preTree
           /\ i3 = lastPass.post
    /\ lastPass.outcome = "command_failed" =>
           /\ pc = "dead"
           /\ IdsOf(tree) = IdsOf(lastPass.snap)
           /\ \A i, j \in 1..Len(lastPass.cmds) :
                  lastPass.cmds[i].id = lastPass.cmds[j].id => i = j
           /\ CachedName(RaisedCmd.id) = RaisedCmd.old
           /\ \A k \in 1..Len(lastPass.snap) :
                  k > SnapPos(RaisedCmd.id) =>
                      /\ CmdsFor(lastPass.snap[k].id) = <<>>
                      /\ i3[lastPass.snap[k].id].name = lastPass.snap[k].name

\* the command for the first of two workspaces raised, and the second,
\* whose label differs from its name, received none
C22_Witness ==
    /\ lastPass.outcome = "command_failed"
    /\ Len(lastPass.snap) = 2
    /\ RaisedCmd.id = lastPass.snap[1].id
    /\ Workspace_str(lastPass.snap[2], settings) # lastPass.snap[2].name
    /\ CmdsFor(lastPass.snap[2].id) = <<>>

\* a text without whitespace at either end
Trimmed(v) ==
    v = <<>> \/ (v[1] \notin Whitespace /\ v[Len(v)] \notin Whitespace)

\* v is what is left of a name without the whitespace at its ends
IsStripOf(v, name) ==
    /\ Trimmed(v)
    /\ \E i \in 1..(Len(name) + 1) :
           /\ \A k \in 1..(i - 1) : name[k] \in Whitespace
           /\ i + Len(v) - 1 <= Len(name)
           /\ v = SubSeq(name, i, i + Len(v) - 1)
           /\ \A k \in (i + Len(v))..Len(name) : name[k] \in Whitespace

\* the step handles a rename event for the identity that is not an echo
AcceptsRenameOf(id) ==
    /\ pc = "loop"
    /\ envLeft' = envLeft
    /\ queue # <<>>
    /\ Head(queue).type = "rename"
    /\ Head(queue).id = id
    /\ ~internal_change(Head(queue), settings)

\* a value of the store is written only by a step that accepts a rename
\* event for its identity, as the stripped name of the event
StoreStep ==
    \A id \in DOMAIN custom_names' :
        IF AcceptsRenameOf(id)
        THEN IsStripOf(custom_names'[id], Head(queue).name)
        ELSE id \in DOMAIN custom_names /\ custom_names'[id] = custom_names[id]

\* C23: every value of the custom-name store has no whitespace at its
\* ends and is the stripped name of the latest rename event accepted for
\* its identity: the store starts empty and every step keeps a value or
\* writes the stripped name of the event it accepts.
C23_StoredNamesTrimmed ==
    /\ [](\A id \in DOMAIN custom_names : Trimmed(custom_names[id]))
    /\ [][StoreStep]_vars

\* the name " c " was accepted and is stored as "c"
C23_Witness ==
    /\ RenameHandled
    /\ lastPass.ev.name = <<" ", "c", " ">>
    /\ lastPass.ev.id \in DOMAIN custom_names
    /\ custom_names[lastPass.ev.id] = <<"c">>

=============================================================================
